---- MODULE Spec2Model ----
(***************************************************************************)
(* A model of the CSV cleaning and type-inference pipeline of              *)
(* src/data_cleaning.py and src/data_processing.py.                        *)
(*                                                                         *)
(* The relational engine is the one the code connects to                   *)
(* (src/database.py: duckdb.connect).  A relation is a sequence of columns *)
(* (name, storage type) and a sequence of rows of cells; a statement the   *)
(* engine rejects raises, and the model follows the exception to the       *)
(* nearest handler of the code, or out of clean_and_store_data.            *)
(*                                                                         *)
(* Strings that the code inspects character by character (column names)    *)
(* are sequences of one-character strings.                                 *)
(*                                                                         *)
(* The SQL of the code applies text functions (TRIM, REPLACE) and the      *)
(* registered Python predicates to columns of any storage type; the model  *)
(* takes the engine to cast a value to text as Python's str() does, and    *)
(* lets the engine reject any of the four staged statements of a column.   *)
(***************************************************************************)
EXTENDS Integers, Sequences, FiniteSets, TLC

VARIABLES
    \* clean_and_store_data
    pc,        \* position in clean_and_store_data
    tables,    \* the engine's catalog: relation name -> relation
    csv,       \* the uploaded file as the loader reads it
    rel,       \* the relation the current stage works on
    todo,      \* infer_and_set_datatypes: columns still to process
    result,    \* what clean_and_store_data gave its caller
    raisedAt,  \* the stage an exception propagated from
    log,       \* the errors infer_and_set_datatypes caught and printed
    \* sanitize_column_name, called alone
    sName, sOnce, sTwice, sPc,
    \* infer_column_type, called alone: the sample, the type returned
    iSample, iType, iPc,
    \* handle_outliers, called alone: the relation before and after
    oBefore, oThreshold, oAfter, oPc,
    \* two executions of clean_and_store_data, each on its own connection:
    \* where each is and the identifier it generated, the temporary relations
    \* of each connection, the relations of the database they share
    uploads, uTemp, uCatalog

vars == <<pc, tables, csv, rel, todo, result, raisedAt, log,
          sName, sOnce, sTwice, sPc, iSample, iType, iPc,
          oBefore, oThreshold, oAfter, oPc, uploads, uTemp, uCatalog>>

pipelineVars == <<pc, tables, csv, rel, todo, result, raisedAt, log>>
sanitizeVars == <<sName, sOnce, sTwice, sPc>>
inferVars    == <<iSample, iType, iPc>>
outlierVars  == <<oBefore, oThreshold, oAfter, oPc>>
uploadVars   == <<uploads, uTemp, uCatalog>>
callVars     == <<sanitizeVars, inferVars, outlierVars, uploadVars>>

----------------------------------------------------------------------------
(* Bounds of the model. *)

MaxLen == 3        \* longest raw name given to sanitize_column_name alone
MaxRows == 2       \* most data rows of an uploaded file
MaxSample == 3     \* largest sample given to infer_column_type alone
MaxOutlierRows == 3 \* most rows of a relation given to handle_outliers alone

----------------------------------------------------------------------------
(* Characters.  "U+0130" is LATIN CAPITAL LETTER I WITH DOT ABOVE, whose   *)
(* str.lower() is "i" followed by "U+0307" COMBINING DOT ABOVE; "TAB" is   *)
(* a whitespace character other than the space.                            *)

LowerLetters == {"a", "b", "e", "g", "i", "n", "w"}
UpperLetters == {"A", "U+0130"}

\* \w of Python's re on str: alphanumerics and the underscore.  A combining
\* mark (U+0307) is not alphanumeric.
IsWordChar(c) == c \in LowerLetters \cup UpperLetters \cup {"_"}

\* \s of Python's re on str
IsSpaceChar(c) == c \in {" ", "TAB"}

\* the characters re.sub(r'[^\w\s_]', '', name) keeps
IsKept(c) == IsWordChar(c) \/ IsSpaceChar(c) \/ c = "_"

RECURSIVE RemoveSpecial(_)
\* re.sub(r'[^\w\s_]', '', name)
RemoveSpecial(name) ==
    IF name = <<>> THEN <<>>
    ELSE (IF IsKept(Head(name)) THEN <<Head(name)>> ELSE <<>>)
             \o RemoveSpecial(Tail(name))

\* str.replace(' ', '_'): the space only
ReplaceSpaces(s) == [i \in 1..Len(s) |-> IF s[i] = " " THEN "_" ELSE s[i]]

\* str.lower() of one character
LowerChar(c) ==
    CASE c = "A"      -> <<"a">>
      [] c = "U+0130" -> <<"i", "U+0307">>
      [] OTHER        -> <<c>>

RECURSIVE Lower(_)
\* str.lower()
Lower(s) == IF s = <<>> THEN <<>> ELSE LowerChar(Head(s)) \o Lower(Tail(s))

RECURSIVE LStrip(_, _)
LStrip(s, c) == IF s # <<>> /\ Head(s) = c THEN LStrip(Tail(s), c) ELSE s

RECURSIVE RStrip(_, _)
RStrip(s, c) ==
    IF s # <<>> /\ s[Len(s)] = c THEN RStrip(SubSeq(s, 1, Len(s) - 1), c) ELSE s

\* str.strip('_')
StripUnderscores(s) == RStrip(LStrip(s, "_"), "_")

\* sanitize_column_name
sanitize_column_name(name) ==
    StripUnderscores(Lower(ReplaceSpaces(RemoveSpecial(name))))

----------------------------------------------------------------------------
(* Cells.  A cell is NULL, a text, a number (the rational n/d in lowest    *)
(* terms, d > 0; s = "." when it is held as a float, so that str() of the  *)
(* whole number 1 is "1.0"), a boolean (n = 1 for true) or a date (s its   *)
(* ISO text).                                                              *)

NullCell    == [k |-> "null", s |-> "", n |-> 0, d |-> 1]
StrCell(s)  == [k |-> "str",  s |-> s,  n |-> 0, d |-> 1]
BoolCell(b) == [k |-> "bool", s |-> "", n |-> (IF b THEN 1 ELSE 0), d |-> 1]
DateCell(s) == [k |-> "date", s |-> s,  n |-> 0, d |-> 1]

Abs(x) == IF x < 0 THEN -x ELSE x

RECURSIVE GCD(_, _)
GCD(a, b) == IF b = 0 THEN a ELSE GCD(b, a % b)

NumCell(n, d) ==
    LET g == GCD(Abs(n), d)
    IN  [k |-> "num", s |-> "", n |-> n \div g, d |-> d \div g]

\* a number as a float holds it
FloatCell(c) == IF c.k = "num" THEN [c EXCEPT !.s = "."] ELSE c

IsNull(c) == c.k = "null"

\* The texts of the model, and what the code's predicates answer on each
\* (is_integer, is_float and is_boolean evaluated on the text; is_date is
\* dateutil's parse plus the any-digit test).
StrVals == {"0", "1", "25", "forty", "true", "2020-01-01", "1e3"}

IntegerTexts == {"0", "1", "25", "30"}
FloatTexts   == {"1e3"}
BooleanTexts == {"true", "false", "yes", "no", "y", "n", "1", "0"}
DateTexts    == {"1", "25", "2020-01-01"}

\* int(val) of a text is_integer accepts
IntOfText(s) == CASE s = "1" -> 1 [] s = "25" -> 25 [] s = "30" -> 30 [] OTHER -> 0

\* float(val) of a text is_float accepts
FloatOfText(s) == CASE s = "1e3" -> 1000 [] OTHER -> IntOfText(s)

INT32_MAX == 2147483647

\* is_integer(str(data)), src/data_processing.py:33-38
is_integer(c) ==
    \/ c.k = "str" /\ c.s \in IntegerTexts
           /\ IntOfText(c.s) >= -INT32_MAX - 1 /\ IntOfText(c.s) <= INT32_MAX
    \/ c.k = "num" /\ c.s = "" /\ c.d = 1
           /\ c.n >= -INT32_MAX - 1 /\ c.n <= INT32_MAX

\* is_float(str(data)), src/data_processing.py:40-42
is_float(c) ==
    /\ ~is_integer(c)
    /\ \/ c.k = "str" /\ c.s \in FloatTexts \cup IntegerTexts
       \/ c.k = "num"

\* is_date(str(data)), src/data_processing.py:44-53.  A whole number from 1
\* to 28 parses as a day of the current month.
is_date(c) ==
    \/ c.k = "str" /\ c.s \in DateTexts
    \/ c.k = "date"
    \/ c.k = "num" /\ c.d = 1 /\ c.n >= 1 /\ c.n <= 28

\* is_boolean(str(data)), src/data_processing.py:56-58
is_boolean(c) ==
    \/ c.k = "str" /\ c.s \in BooleanTexts
    \/ c.k = "bool"
    \/ c.k = "num" /\ c.s = "" /\ c.d = 1 /\ c.n \in {0, 1}

\* format_date, src/data_processing.py:60-65: the date as YYYY-MM-DD; a
\* bare day number falls in the current month.
format_date(c) ==
    CASE c.k = "date"                       -> c
      [] c.k = "str" /\ c.s = "2020-01-01"  -> DateCell("2020-01-01")
      [] c.k = "str" /\ c.s = "1"           -> DateCell("yyyy-mm-01")
      [] c.k = "str" /\ c.s = "25"          -> DateCell("yyyy-mm-25")
      [] c.k = "num" /\ c.n = 1             -> DateCell("yyyy-mm-01")
      [] c.k = "num" /\ c.n = 25            -> DateCell("yyyy-mm-25")
      [] OTHER                              -> DateCell("yyyy-mm-dd")

\* Python's truth value of a fetched cell: None, '', 0 and False are false
Truthy(c) ==
    CASE c.k = "null" -> FALSE
      [] c.k = "str"  -> c.s # ""
      [] c.k = "num"  -> c.n # 0
      [] c.k = "bool" -> c.n = 1
      [] OTHER        -> TRUE

----------------------------------------------------------------------------
(* The engine.  A relation is [cols, rows]: cols a sequence of             *)
(* [name, type], rows a sequence of rows, each a sequence of cells aligned *)
(* with cols.  Each statement has the condition under which the engine     *)
(* accepts it; a rejected statement raises and changes nothing.            *)

ColNames(t) == [i \in 1..Len(t.cols) |-> t.cols[i].name]
ColTypes(t) == [i \in 1..Len(t.cols) |-> t.cols[i].type]

HasColumn(t, name) == \E i \in 1..Len(t.cols) : t.cols[i].name = name

ColIndex(t, name) == CHOOSE i \in 1..Len(t.cols) : t.cols[i].name = name

\* the cells of a column, row by row
ColCells(t, name) ==
    [r \in 1..Len(t.rows) |-> t.rows[r][ColIndex(t, name)]]

RemoveAt(s, i) == SubSeq(s, 1, i - 1) \o SubSeq(s, i + 1, Len(s))

RECURSIVE PickRows(_, _, _)
\* the rows whose index is in keep, in order, from row i on
PickRows(rows, keep, i) ==
    IF i > Len(rows) THEN <<>>
    ELSE (IF i \in keep THEN <<rows[i]>> ELSE <<>>) \o PickRows(rows, keep, i + 1)

\* ALTER TABLE t ADD COLUMN name type
CanAddColumn(t, name) == ~HasColumn(t, name)

AddColumn(t, name, type) ==
    [cols |-> Append(t.cols, [name |-> name, type |-> type]),
     rows |-> [r \in 1..Len(t.rows) |-> Append(t.rows[r], NullCell)]]

\* ALTER TABLE t DROP COLUMN name: the engine keeps a relation's last column
\* ("Cannot drop column: table only has one column remaining!")
CanDropColumn(t, name) == HasColumn(t, name) /\ Len(t.cols) > 1

DropColumn(t, name) ==
    LET i == ColIndex(t, name)
    IN  [cols |-> RemoveAt(t.cols, i),
         rows |-> [r \in 1..Len(t.rows) |-> RemoveAt(t.rows[r], i)]]

\* ALTER TABLE t RENAME COLUMN "old" TO new: new is spliced into the
\* statement unquoted, so an empty new name is a syntax error
CanRenameColumn(t, old, new) ==
    /\ new # <<>>
    /\ HasColumn(t, old)
    /\ \A i \in 1..Len(t.cols) :
           t.cols[i].name = new => t.cols[i].name = old

RenameColumn(t, old, new) ==
    [t EXCEPT !.cols[ColIndex(t, old)].name = new]

\* UPDATE t SET name = expression, values the expression's value row by row
UpdateColumn(t, name, values) ==
    LET i == ColIndex(t, name)
    IN  [t EXCEPT !.rows =
            [r \in 1..Len(t.rows) |-> [t.rows[r] EXCEPT ![i] = values[r]]]]

\* DELETE FROM t WHERE cond, deleted the rows on which cond is TRUE
DeleteRows(t, deleted) ==
    [t EXCEPT !.rows = PickRows(t.rows, (1..Len(t.rows)) \ deleted, 1)]

\* CREATE [TEMPORARY] TABLE name AS SELECT * FROM t / DROP TABLE name
CreateTable(cat, name, t) == cat @@ (name :> t)

DropTable(cat, name) == [x \in (DOMAIN cat) \ {name} |-> cat[x]]

TableExists(cat, name) == name \in DOMAIN cat

----------------------------------------------------------------------------
(* Aggregates of the engine: COUNT, MEDIAN, AVG, STDDEV_SAMP.              *)

RECURSIVE NonNull(_)
\* the non-null cells of a sequence of cells, in order
NonNull(cells) ==
    IF cells = <<>> THEN <<>>
    ELSE (IF IsNull(Head(cells)) THEN <<>> ELSE <<Head(cells)>>)
             \o NonNull(Tail(cells))

\* the order of texts (code points), on the texts of the model
TextRank(s) ==
    CASE s = ""           -> 0
      [] s = "1"          -> 1
      [] s = "1e3"        -> 2
      [] s = "2020-01-01" -> 3
      [] s = "25"         -> 4
      [] s = "30"         -> 5
      [] s = "forty"      -> 6
      [] s = "true"       -> 7
      [] OTHER            -> 8

\* ORDER BY on cells of one column
CellLeq(a, b) ==
    IF a.k = "num" /\ b.k = "num" THEN a.n * b.d <= b.n * a.d
    ELSE IF a.k = b.k THEN
        (IF a.k = "bool" THEN a.n <= b.n ELSE TextRank(a.s) <= TextRank(b.s))
    ELSE a.k = "num"

\* the k-th smallest of a non-empty sequence of cells
KthSmallest(cells, k) ==
    CHOOSE x \in {cells[i] : i \in 1..Len(cells)} :
        /\ Cardinality({i \in 1..Len(cells) : CellLeq(cells[i], x) /\ cells[i] # x}) < k
        /\ Cardinality({i \in 1..Len(cells) : CellLeq(cells[i], x)}) >= k

\* MEDIAN over non-null cells: NULL of none; of numbers the mean of the two
\* middle values; of ordinal values the lower middle value
Median(cells) ==
    IF cells = <<>> THEN NullCell
    ELSE LET N  == Len(cells)
             lo == KthSmallest(cells, (N + 1) \div 2)
             hi == KthSmallest(cells, N \div 2 + 1)
         IN  IF lo.k = "num" /\ hi.k = "num"
             THEN NumCell(lo.n * hi.d + hi.n * lo.d, 2 * lo.d * hi.d)
             ELSE lo

RECURSIVE SumCells(_)
\* the sum of a sequence of numbers
SumCells(cells) ==
    IF cells = <<>> THEN NumCell(0, 1)
    ELSE LET a == Head(cells)
             b == SumCells(Tail(cells))
         IN  NumCell(a.n * b.d + b.n * a.d, a.d * b.d)

\* AVG over non-null numbers: NULL of none
Avg(cells) ==
    IF cells = <<>> THEN NullCell
    ELSE LET sum == SumCells(cells)
         IN  NumCell(sum.n, sum.d * Len(cells))

RECURSIVE ProductOfDenominators(_)
ProductOfDenominators(cells) ==
    IF cells = <<>> THEN 1 ELSE Head(cells).d * ProductOfDenominators(Tail(cells))

RECURSIVE SumInts(_)
SumInts(xs) == IF xs = <<>> THEN 0 ELSE Head(xs) + SumInts(Tail(xs))

\* The engine computes AVG and STDDEV_SAMP in double precision, where the
\* square of a value such as 100000 is exact.  Squares and their sums are
\* held here as natural numbers of any size: sequences of digits in base
\* Base, lowest first.
Base == 10000

RECURSIVE BigOf(_)
BigOf(n) == IF n = 0 THEN <<>> ELSE <<n % Base>> \o BigOf(n \div Base)

RECURSIVE Carry(_, _)
Carry(limbs, c) ==
    IF limbs = <<>> THEN BigOf(c)
    ELSE LET v == Head(limbs) + c
         IN  <<v % Base>> \o Carry(Tail(limbs), v \div Base)

Limb(a, i) == IF i <= Len(a) THEN a[i] ELSE 0

BigAdd(a, b) ==
    LET n == IF Len(a) < Len(b) THEN Len(b) ELSE Len(a)
    IN  Carry([i \in 1..n |-> Limb(a, i) + Limb(b, i)], 0)

RECURSIVE BigMul(_, _)
BigMul(a, b) ==
    IF a = <<>> THEN <<>>
    ELSE BigAdd(Carry([i \in 1..Len(b) |-> b[i] * Head(a)], 0),
                <<0>> \o BigMul(Tail(a), b))

RECURSIVE BigLessFrom(_, _, _)
BigLessFrom(a, b, i) ==
    IF i = 0 THEN FALSE
    ELSE IF Limb(a, i) # Limb(b, i) THEN Limb(a, i) < Limb(b, i)
    ELSE BigLessFrom(a, b, i - 1)

BigLess(a, b) == BigLessFrom(a, b, IF Len(a) < Len(b) THEN Len(b) ELSE Len(a))

BigSquare(x) == BigMul(BigOf(Abs(x)), BigOf(Abs(x)))

RECURSIVE BigSum(_)
BigSum(xs) == IF xs = <<>> THEN <<>> ELSE BigAdd(Head(xs), BigSum(Tail(xs)))

\* The statistics of a numeric column, over its non-null cells scaled to the
\* whole numbers a_i = value_i * D: N values, their sum S, the sum Q of their
\* squares.  AVG = S/(N D); STDDEV_SAMP^2 = (N Q - S^2)/(N (N-1) D^2).
ColumnStats(cells) ==
    LET vals == NonNull(cells)
        D    == ProductOfDenominators(vals)
        a    == [i \in 1..Len(vals) |-> vals[i].n * (D \div vals[i].d)]
    IN  [N |-> Len(vals),
         D |-> D,
         S |-> SumInts(a),
         Q |-> BigSum([i \in 1..Len(a) |-> BigSquare(a[i])])]

\* STDDEV_SAMP is NULL on fewer than two values (N < 2).
\* N Q - S^2 is never negative: it is zero unless S^2 < N Q
StdDevIsZero(st) ==
    st.N >= 2 /\ ~BigLess(BigSquare(st.S), BigMul(BigOf(st.N), st.Q))

----------------------------------------------------------------------------
(* handle_missing_data, src/data_cleaning.py:35-104                        *)

\* numeric storage types, src/data_cleaning.py:80
MissingNumericTypes == {"INTEGER", "BIGINT", "DOUBLE", "DECIMAL"}

RECURSIVE DropEmptyColumns(_, _, _)
\* lines 53-57: the loop over columns.copy(); t is the relation so far,
\* columns the list the loop removes from.  The DROP COLUMN of line 56 is
\* outside any try: if the engine rejects it the exception leaves the
\* function with the columns dropped so far gone.
DropEmptyColumns(t, rest, columns) ==
    IF rest = <<>> THEN [t |-> t, columns |-> columns, raised |-> FALSE]
    ELSE LET column == Head(rest)
             count_not_null == Len(NonNull(ColCells(t, column)))
         IN  IF count_not_null # 0
             THEN DropEmptyColumns(t, Tail(rest), columns)
             ELSE IF CanDropColumn(t, column)
             THEN DropEmptyColumns(DropColumn(t, column), Tail(rest),
                                   RemoveAt(columns, CHOOSE j \in 1..Len(columns) :
                                                 columns[j] = column))
             ELSE [t |-> t, columns |-> columns, raised |-> TRUE]

\* lines 65-66: DELETE the rows in which every surviving column IS NULL
DeleteEmptyRows(t, columns) ==
    DeleteRows(t, {r \in 1..Len(t.rows) :
        \A j \in 1..Len(columns) : IsNull(t.rows[r][ColIndex(t, columns[j])])})

\* lines 88-95: the first row of GROUP BY column ORDER BY count DESC.  NULL
\* is a group like any other, and the order among groups of equal count is
\* the engine's: every most frequent value may come first.
ModeCandidates(cells) ==
    LET groups   == {cells[i] : i \in 1..Len(cells)}
        count(v) == Cardinality({i \in 1..Len(cells) : cells[i] = v})
    IN  {v \in groups : \A w \in groups : count(w) <= count(v)}

\* lines 80-96: the values fillna may be given for the j-th surviving
\* column; types is the list read at line 50, before any column was dropped
FillCandidates(t, columns, types, j) ==
    LET cells == ColCells(t, columns[j])
    IN  IF types[j] \in MissingNumericTypes
        THEN {Median(NonNull(cells))}
        ELSE {IF Truthy(m) THEN m ELSE StrCell("") : m \in ModeCandidates(cells)}

\* one fill value for each surviving column
FillChoices(t, columns, types) ==
    {f \in [1..Len(columns) -> UNION {FillCandidates(t, columns, types, j) :
                                         j \in 1..Len(columns)}] :
        \A j \in 1..Len(columns) : f[j] \in FillCandidates(t, columns, types, j)}

\* the storage type of a DataFrame column written back to the engine: text
\* in the column makes it VARCHAR, floats make it DOUBLE
FilledType(type, cells) ==
    IF \E i \in 1..Len(cells) : cells[i].k = "str" THEN "VARCHAR"
    ELSE IF \E i \in 1..Len(cells) : cells[i].k = "num" /\ cells[i].s = "."
    THEN "DOUBLE"
    ELSE type

\* lines 75-101: df with each column's nulls filled, as a new relation.  The
\* DataFrame of line 75 holds a column of whole numbers with a null in it as
\* floats.
FilledRelation(t, columns, fill) ==
    LET idx(j) == ColIndex(t, columns[j])
        hadNull(j) == \E r \in 1..Len(t.rows) : IsNull(t.rows[r][idx(j)])
        held(j, c) == IF hadNull(j) THEN FloatCell(c) ELSE c
        rows == [r \in 1..Len(t.rows) |->
                    [j \in 1..Len(columns) |->
                        IF IsNull(t.rows[r][idx(j)]) THEN held(j, fill[j])
                        ELSE held(j, t.rows[r][idx(j)])]]
    IN  [cols |-> [j \in 1..Len(columns) |->
                    [name |-> columns[j],
                     type |-> FilledType(t.cols[idx(j)].type,
                                         [r \in 1..Len(rows) |-> rows[r][j]])]],
         rows |-> rows]

\* handle_missing_data: every way the call can end.  t is the relation as
\* the call leaves it, created whether relation_name_cleaned was created
\* (then cleaned is its content and it is what the call returns; otherwise
\* the call returns relation_name), raised whether an exception left it.
handle_missing_data(t0) ==
    LET types == ColTypes(t0)
        d     == DropEmptyColumns(t0, ColNames(t0), ColNames(t0))
        t1    == DeleteEmptyRows(d.t, d.columns)
    IN  IF d.raised
        THEN {[t |-> d.t, created |-> FALSE, cleaned |-> d.t, raised |-> TRUE]}
        ELSE IF d.columns = <<>>
        THEN {[t |-> d.t, created |-> FALSE, cleaned |-> d.t, raised |-> FALSE]}
        ELSE IF Len(t1.rows) = 0
        THEN {[t |-> t1, created |-> FALSE, cleaned |-> t1, raised |-> FALSE]}
        ELSE {[t |-> t1, created |-> TRUE,
               cleaned |-> FilledRelation(t1, d.columns, fill),
               raised |-> FALSE] : fill \in FillChoices(t1, d.columns, types)}

----------------------------------------------------------------------------
(* handle_outliers, src/data_cleaning.py:107-141                           *)

\* numeric storage types, src/data_cleaning.py:126
OutlierNumericTypes == {"INTEGER", "BIGINT", "FLOAT", "DOUBLE"}

\* line 131: "if not stddev_col: continue"
Qualifies(t, i) ==
    LET st == ColumnStats(ColCells(t, t.cols[i].name))
    IN  /\ t.cols[i].type \in OutlierNumericTypes
        /\ st.N >= 2
        /\ ~StdDevIsZero(st)

\* dev^2 (N - 1) < k N (N Q - S^2), with the subtraction moved across
BelowBound(dev, st, k) ==
    BigLess(BigAdd(BigMul(BigSquare(dev), BigOf(st.N - 1)),
                   BigMul(BigOf(k * st.N), BigSquare(st.S))),
            BigMul(BigOf(k * st.N * st.N), st.Q))

\* the clause of line 134 without ABS: only values above the mean count
ZScoreClauseWithoutAbs(cell, st, threshold) ==
    IF IsNull(cell) THEN "N"
    ELSE LET a   == cell.n * (st.D \div cell.d)
             dev == st.N * a - st.S
         IN  IF dev < 0 \/ BelowBound(dev, st, threshold * threshold)
             THEN "T" ELSE "F"

\* the clause of line 134 with the variance in place of the standard
\* deviation's square: the quotient squared against the threshold itself
ZScoreClauseUnsquared(cell, st, threshold) ==
    IF IsNull(cell) THEN "N"
    ELSE LET a   == cell.n * (st.D \div cell.d)
             dev == st.N * a - st.S
         IN  IF BelowBound(dev, st, threshold) THEN "T" ELSE "F"

\* line 134: ABS(column - avg) / stddev < threshold on one cell, in SQL's
\* three-valued logic ("T", "F", "N" for NULL); squared and cleared of
\* denominators: with dev = N (value - avg) D the clause is
\* dev^2 (N - 1) < threshold^2 N (N Q - S^2)
ZScoreClause(cell, st, threshold) ==
    IF IsNull(cell) THEN "N"
    ELSE LET a   == cell.n * (st.D \div cell.d)
             dev == st.N * a - st.S
         IN  IF BelowBound(dev, st, threshold * threshold)
             THEN "T" ELSE "F"

\* lines 125-141; And3 and Not3 are SQL's AND over a set of truth values
\* and its NOT
handle_outliers(t, z_score_threshold) ==
    LET And3(vs) == IF "F" \in vs THEN "F" ELSE IF "N" \in vs THEN "N" ELSE "T"
        Not3(v)  == CASE v = "T" -> "F" [] v = "F" -> "T" [] OTHER -> "N"
        clauses == {i \in 1..Len(t.cols) : Qualifies(t, i)}
        stats(i) == ColumnStats(ColCells(t, t.cols[i].name))
        filter(row) ==
            And3({ZScoreClause(row[i], stats(i), z_score_threshold) : i \in clauses})
    IN  IF clauses = {} THEN t
        ELSE DeleteRows(t, {r \in 1..Len(t.rows) : Not3(filter(t.rows[r])) = "T"})

----------------------------------------------------------------------------
(* infer_column_type, src/data_processing.py:76-109                        *)

SAMPLE_SIZE == 100

\* SUCCESS_THRESHOLD = 0.5, as the fraction ThresholdNum / ThresholdDen
ThresholdNum == 1
ThresholdDen == 2

TypeKeys == {"INTEGER", "FLOAT", "DATE", "BOOLEAN", "VARCHAR"}

\* the order of the keys as Python compares strings: max() of line 109
KeyRank(key) ==
    CASE key = "BOOLEAN" -> 1
      [] key = "DATE"    -> 2
      [] key = "FLOAT"   -> 3
      [] key = "INTEGER" -> 4
      [] key = "VARCHAR" -> 5

\* lines 78-79: SELECT DISTINCT col ... WHERE col IS NOT NULL LIMIT
\* SAMPLE_SIZE: all the distinct values when there are at most SAMPLE_SIZE,
\* else any SAMPLE_SIZE of them
Samples(cells) ==
    LET distinct == {cells[i] : i \in {j \in 1..Len(cells) : ~IsNull(cells[j])}}
    IN  IF Cardinality(distinct) <= SAMPLE_SIZE THEN {distinct}
        ELSE {smp \in SUBSET distinct : Cardinality(smp) = SAMPLE_SIZE}

\* lines 81-98: the counters after the loop over the sample
Counters(sample_data) ==
    [key \in TypeKeys |->
        CASE key = "INTEGER" -> Cardinality({v \in sample_data : is_integer(v)})
          [] key = "FLOAT"   -> Cardinality({v \in sample_data :
                                    ~is_integer(v) /\ is_float(v)})
          [] key = "DATE"    -> Cardinality({v \in sample_data : is_date(v)})
          [] key = "BOOLEAN" -> Cardinality({v \in sample_data : is_boolean(v)})
          [] key = "VARCHAR" -> 0]

\* min() in the place of max(): the key that compares lowest
MinKey(keys) == CHOOSE key \in keys : \A other \in keys : KeyRank(key) <= KeyRank(other)

\* the key max() picks among keys
MaxKey(keys) == CHOOSE key \in keys : \A other \in keys : KeyRank(other) <= KeyRank(key)

\* infer_column_type without the test of line 105
infer_column_type_without_threshold(sample_data) ==
    LET n         == Cardinality(sample_data)
        counters  == Counters(sample_data)
        max_count == CHOOSE m \in {counters[key] : key \in TypeKeys} :
                         \A key \in TypeKeys : counters[key] <= m
    IN  IF n = 0 THEN "ZeroDivisionError"
        ELSE MaxKey({key \in TypeKeys : counters[key] = max_count})

\* lines 100-109.  The success rate of a key is counters[key] / n; rates
\* are compared as counts (same n), and max_rate < SUCCESS_THRESHOLD as
\* max_count * ThresholdDen < ThresholdNum * n.  An empty sample divides by
\* zero at line 101.
infer_column_type(sample_data) ==
    LET n         == Cardinality(sample_data)
        counters  == Counters(sample_data)
        max_count == CHOOSE m \in {counters[key] : key \in TypeKeys} :
                         \A key \in TypeKeys : counters[key] <= m
    IN  IF n = 0 THEN "ZeroDivisionError"
        ELSE IF max_count * ThresholdDen < ThresholdNum * n THEN "VARCHAR"
        ELSE MaxKey({key \in TypeKeys : counters[key] = max_count})

----------------------------------------------------------------------------
(* infer_and_set_datatypes, src/data_processing.py:125-188                 *)

\* CAST(REPLACE(col, ',', '') AS INTEGER) of a cell is_integer accepts
IntegerOf(c) == IF c.k = "str" THEN NumCell(IntOfText(c.s), 1) ELSE c

\* CAST(REPLACE(col, ',', '') AS FLOAT) of a cell is_float accepts
FloatOf(c) == IF c.k = "str" THEN NumCell(FloatOfText(c.s), 1) ELSE c

RECURSIVE SelectCells(_, _)
\* the cells of a sequence that are in a set, in order
SelectCells(cells, S) ==
    IF cells = <<>> THEN <<>>
    ELSE (IF Head(cells) \in S THEN <<Head(cells)>> ELSE <<>>)
             \o SelectCells(Tail(cells), S)

\* compute_mean_or_median, lines 179-188: the aggregate is NULL (None) when
\* no row passes the WHERE
compute_mean_or_median(cells, datatype) ==
    IF datatype = "FLOAT"
    THEN LET sel == SelectCells(cells, {c \in {cells[i] : i \in 1..Len(cells)} :
                                            ~IsNull(c) /\ is_float(c)})
         IN  Avg([i \in 1..Len(sel) |-> FloatOf(sel[i])])
    ELSE LET sel == SelectCells(cells, {c \in {cells[i] : i \in 1..Len(cells)} :
                                            ~IsNull(c) /\ is_integer(c)})
         IN  Median([i \in 1..Len(sel) |-> IntegerOf(sel[i])])

\* a number stored in an INTEGER column: rounded, halves away from zero
RoundToInteger(c) ==
    IF c.k # "num" THEN c
    ELSE LET twice == 2 * Abs(c.n) + c.d
             mag   == twice \div (2 * c.d)
         IN  NumCell(IF c.n < 0 THEN -mag ELSE mag, 1)

\* TRIM(col) = ''
IsBlank(c) == c.k = "str" /\ c.s = ""

\* CAST(col AS BOOLEAN) of a cell is_boolean accepts
BooleanOf(c) ==
    CASE c.k = "bool" -> c
      [] c.k = "num"  -> BoolCell(c.n = 1)
      [] OTHER        -> BoolCell(c.s \in {"true", "yes", "y", "1"})

\* TRANSFORMATION_LOGIC, lines 68-74: the value the cast expression of a
\* type gives the new column on one cell of the old one
Transform(type, c, value_to_replace) ==
    CASE type = "INTEGER" ->
            IF IsNull(c) \/ IsBlank(c) \/ ~is_integer(c)
            THEN RoundToInteger(value_to_replace) ELSE IntegerOf(c)
      [] type = "FLOAT" ->
            IF IsNull(c) \/ IsBlank(c) \/ ~is_float(c)
            THEN FloatCell(value_to_replace) ELSE FloatCell(FloatOf(c))
      [] type = "BOOLEAN" ->
            IF ~IsNull(c) /\ is_boolean(c) THEN BooleanOf(c) ELSE NullCell
      [] type = "DATE" ->
            IF ~IsNull(c) /\ is_date(c) THEN format_date(c) ELSE NullCell
      [] OTHER -> c

New(col) == col \o <<"_", "n", "e", "w">>

\* The four staged statements, each the relation it leaves and whether it
\* succeeded.  fail[k] says the engine rejects statement k for a reason of
\* its own (a cast error, a conflict); it also rejects a statement whose
\* columns are not there.

\* line 160: ALTER TABLE ADD COLUMN col_new inferred_type
StageAdd(t, col, inferred_type, fail) ==
    IF ~fail[1] /\ CanAddColumn(t, New(col))
    THEN [t |-> AddColumn(t, New(col), inferred_type), ok |-> TRUE]
    ELSE [t |-> t, ok |-> FALSE]

\* line 166: UPDATE SET col_new = cast_expression; a value_to_replace of
\* None is spliced in as the name None, which no column has
StagePopulate(t, col, inferred_type, value_to_replace, fail) ==
    IF /\ ~fail[2]
       /\ HasColumn(t, New(col))
       /\ HasColumn(t, col)
       /\ (inferred_type \in {"INTEGER", "FLOAT"} => ~IsNull(value_to_replace))
    THEN [t |-> UpdateColumn(t, New(col), [r \in 1..Len(t.rows) |->
                    Transform(inferred_type, t.rows[r][ColIndex(t, col)],
                              value_to_replace)]),
          ok |-> TRUE]
    ELSE [t |-> t, ok |-> FALSE]

\* line 172: ALTER TABLE DROP COLUMN col
StageDrop(t, col, fail) ==
    IF ~fail[3] /\ CanDropColumn(t, col)
    THEN [t |-> DropColumn(t, col), ok |-> TRUE]
    ELSE [t |-> t, ok |-> FALSE]

\* line 173: ALTER TABLE RENAME COLUMN col_new TO col
StageRename(t, col, fail) ==
    IF ~fail[4] /\ CanRenameColumn(t, New(col), col)
    THEN [t |-> RenameColumn(t, New(col), col), ok |-> TRUE]
    ELSE [t |-> t, ok |-> FALSE]

\* lines 158-175, one pass of the loop body after the type is inferred: the
\* add and the populate each in a try of its own, the drop and the rename in
\* one try, so the rename is skipped when the drop fails.  failed is the set
\* of statements whose error the pass printed.
StagedMigration(t, col, inferred_type, value_to_replace, fail) ==
    LET a == StageAdd(t, col, inferred_type, fail)
        u == StagePopulate(a.t, col, inferred_type, value_to_replace, fail)
        d == StageDrop(u.t, col, fail)
        r == IF d.ok THEN StageRename(d.t, col, fail) ELSE [t |-> d.t, ok |-> TRUE]
    IN  [t |-> r.t,
         failed |-> {k \in {"add"} : ~a.ok} \cup {k \in {"populate"} : ~u.ok}
                       \cup {k \in {"drop"} : ~d.ok} \cup {k \in {"rename"} : ~r.ok}]

----------------------------------------------------------------------------
(* The uploaded files.                                                     *)

\* raw column names of the model's files
RawNames == {<<"a">>, <<"b">>, <<"a", "!">>, <<"!">>, <<"a", "_", "n", "e", "w">>}

\* the headers of the model's files: one column, or two distinctly named
\* columns the first of which is named a
Headers ==
    {<<x>> : x \in RawNames} \cup {<<<<"a">>, y>> : y \in RawNames \ {<<"a">>}}

\* the texts in the cells of the model's files: of one column, and of two
FileTexts(ncols) ==
    IF ncols = 1 THEN {"1", "forty", "true", "2020-01-01", "1e3"}
    ELSE {"1", "forty"}

TextCells(ncols) == {NullCell} \cup {StrCell(s) : s \in FileTexts(ncols)}
WholeCells == {NullCell, NumCell(1, 1), NumCell(25, 1)}

\* The columns the loader can make of n data rows: a column whose every
\* value reads as a whole number is stored as BIGINT, any other as VARCHAR.
LoadedColumns(n, ncols) ==
    {[type |-> "VARCHAR", cells |-> c] : c \in [1..n -> TextCells(ncols)]}
        \cup {[type |-> "BIGINT", cells |-> c] :
                 c \in {x \in [1..n -> WholeCells] : \E r \in 1..n : ~IsNull(x[r])}}

\* the relation read_csv_auto makes of a header and its columns
LoadedRelation(header, columns, n) ==
    [cols |-> [i \in 1..Len(header) |->
                  [name |-> header[i], type |-> columns[i].type]],
     rows |-> [r \in 1..n |-> [i \in 1..Len(header) |-> columns[i].cells[r]]]]

EmptyRelation == [cols |-> <<>>, rows |-> <<>>]

\* An uploaded file is one pandas rejects with ParserError ("malformed"),
\* one it rejects with another error, such as EmptyDataError on a file of no
\* bytes ("empty"), one pandas reads and the engine's reader rejects
\* ("unloadable"), or one both read ("table").
CsvFiles ==
    {[kind |-> k, relation |-> EmptyRelation] :
        k \in {"malformed", "empty", "unloadable"}}
    \cup
    {[kind |-> "table", relation |-> LoadedRelation(h, c, n)] :
        <<h, c, n>> \in UNION {{<<h, c, n>> : c \in [1..Len(h) -> LoadedColumns(n, Len(h))]} :
                                 <<h, n>> \in Headers \X (0..MaxRows)}}

----------------------------------------------------------------------------
(* clean_and_store_data, src/data_cleaning.py:143-204                      *)

\* the names of one upload's relations (lines 172-173 and 99)
upload_id == "upload"
relation_name == "tmp_upload"
new_relation_name == "tmp_upload_cleaned"

\* a relation an earlier upload left in the database
PrevRelation ==
    [cols |-> <<[name |-> <<"a">>, type |-> "INTEGER"]>>,
     rows |-> <<<<NumCell(1, 1)>>>>]

NoResult == [status |-> "none", upload_id |-> "", sample |-> <<>>]

\* lines 196-199: the first rows of the final relation, the booleans of a
\* column of dtype bool (one without nulls) as integers
SampleOf(t) ==
    LET n == IF Len(t.rows) < SAMPLE_SIZE THEN Len(t.rows) ELSE SAMPLE_SIZE
        isBool(i) == \A r \in 1..n : t.rows[r][i].k = "bool"
    IN  [r \in 1..n |-> [i \in 1..Len(t.cols) |->
            IF isBool(i) THEN NumCell(t.rows[r][i].n, 1) ELSE t.rows[r][i]]]

SanitizeIdle ==
    /\ sName = <<>> /\ sOnce = <<>> /\ sTwice = <<>> /\ sPc = "idle"

InferIdle == iSample = {} /\ iType = "" /\ iPc = "idle"

OutliersIdle ==
    /\ oBefore = EmptyRelation /\ oAfter = EmptyRelation
    /\ oThreshold = 0 /\ oPc = "idle"

UploadsIdle == uploads = <<>> /\ uTemp = <<>> /\ uCatalog = {}

Init ==
    /\ pc = "start"
    /\ tables = ("prev" :> PrevRelation)
    /\ csv \in CsvFiles
    /\ rel = ""
    /\ todo = <<>>
    /\ result = NoResult
    /\ raisedAt = ""
    /\ log = {}
    /\ SanitizeIdle /\ InferIdle /\ OutliersIdle /\ UploadsIdle

Raise(stage) ==
    /\ pc' = "done"
    /\ result' = [NoResult EXCEPT !.status = "raised"]
    /\ raisedAt' = stage

\* lines 163-167: pd.read_csv; only ParserError is caught
ParseCsv ==
    /\ pc = "start"
    /\ IF csv.kind = "malformed"
       THEN /\ pc' = "done"
            /\ result' = [NoResult EXCEPT !.status = "none_none"]
            /\ UNCHANGED raisedAt
       ELSE IF csv.kind = "empty"
       THEN Raise("parse")
       ELSE /\ pc' = "parsed"
            /\ UNCHANGED <<result, raisedAt>>
    /\ UNCHANGED <<tables, csv, rel, todo, log, callVars>>

\* lines 170-176: CREATE TEMPORARY TABLE relation_name AS SELECT * FROM
\* read_csv_auto(file_path)
LoadCsv ==
    /\ pc = "parsed"
    /\ IF csv.kind = "unloadable" \/ TableExists(tables, relation_name)
       THEN Raise("load") /\ UNCHANGED <<tables, rel>>
       ELSE /\ tables' = CreateTable(tables, relation_name, csv.relation)
            /\ rel' = relation_name
            /\ pc' = "loaded"
            /\ UNCHANGED <<result, raisedAt>>
    /\ UNCHANGED <<csv, todo, log, callVars>>

RECURSIVE SanitizeColumns(_, _)
\* lines 179-183: the loop over the column names read at line 179; the
\* RENAME is outside any try
SanitizeColumns(t, columns_info) ==
    IF columns_info = <<>> THEN [t |-> t, raised |-> FALSE]
    ELSE LET old_column_name == Head(columns_info)
             new_column_name == sanitize_column_name(old_column_name)
         IN  IF CanRenameColumn(t, old_column_name, new_column_name)
             THEN SanitizeColumns(RenameColumn(t, old_column_name, new_column_name),
                                  Tail(columns_info))
             ELSE [t |-> t, raised |-> TRUE]

Sanitize ==
    /\ pc = "loaded"
    /\ LET s == SanitizeColumns(tables[rel], ColNames(tables[rel]))
       IN  /\ tables' = [tables EXCEPT ![rel] = s.t]
           /\ IF s.raised THEN Raise("sanitize")
              ELSE pc' = "sanitized" /\ UNCHANGED <<result, raisedAt>>
    /\ UNCHANGED <<csv, rel, todo, log, callVars>>

\* line 186
HandleMissingData ==
    /\ pc = "sanitized"
    /\ \E o \in handle_missing_data(tables[rel]) :
          /\ tables' = IF o.created
                       THEN CreateTable([tables EXCEPT ![rel] = o.t],
                                        new_relation_name, o.cleaned)
                       ELSE [tables EXCEPT ![rel] = o.t]
          /\ IF o.raised THEN Raise("missing") /\ UNCHANGED rel
             ELSE /\ rel' = IF o.created THEN new_relation_name ELSE rel
                  /\ pc' = "cleaned"
                  /\ UNCHANGED <<result, raisedAt>>
    /\ UNCHANGED <<csv, todo, log, callVars>>

\* line 187: the default z_score_threshold
DefaultThreshold == 3

HandleOutliers ==
    /\ pc = "cleaned"
    /\ tables' = [tables EXCEPT ![rel] = handle_outliers(tables[rel], DefaultThreshold)]
    /\ pc' = "filtered"
    /\ UNCHANGED <<csv, rel, todo, result, raisedAt, log, callVars>>

\* src/data_processing.py:137-144: table_exists, get_columns
InferBegin ==
    /\ pc = "filtered"
    /\ IF ~TableExists(tables, rel)
       THEN Raise("infer") /\ UNCHANGED todo
       ELSE /\ todo' = ColNames(tables[rel])
            /\ pc' = "infer"
            /\ UNCHANGED <<result, raisedAt>>
    /\ UNCHANGED <<tables, csv, rel, log, callVars>>

\* src/data_processing.py:147-175: one pass of the loop.  The queries of
\* infer_column_type and compute_mean_or_median are outside any try: a
\* column that is no longer there, or an empty sample, ends the pipeline.
InferColumn ==
    /\ pc = "infer"
    /\ todo # <<>>
    /\ LET col == Head(todo)
           t   == tables[rel]
       IN  IF ~HasColumn(t, col)
           THEN Raise("infer") /\ UNCHANGED <<tables, todo, log>>
           ELSE \E sample_data \in Samples(ColCells(t, col)) :
                LET inferred_type == infer_column_type(sample_data)
                    value_to_replace ==
                        IF inferred_type \in {"INTEGER", "FLOAT"}
                        THEN compute_mean_or_median(ColCells(t, col), inferred_type)
                        ELSE NullCell
                IN  IF inferred_type = "ZeroDivisionError"
                    THEN Raise("infer") /\ UNCHANGED <<tables, todo, log>>
                    ELSE \E fail \in [1..4 -> BOOLEAN] :
                         LET m == StagedMigration(t, col, inferred_type,
                                                  value_to_replace, fail)
                         IN  /\ tables' = [tables EXCEPT ![rel] = m.t]
                             /\ log' = log \cup {[col |-> col, stmt |-> k] : k \in m.failed}
                             /\ todo' = Tail(todo)
                             /\ UNCHANGED <<pc, result, raisedAt>>
    /\ UNCHANGED <<csv, rel, callVars>>

\* lines 193-204: copy to the final relation, fetch the sample, drop the
\* working relation, return
StoreFinal ==
    /\ pc = "infer"
    /\ todo = <<>>
    /\ IF TableExists(tables, upload_id)
       THEN Raise("store") /\ UNCHANGED tables
       ELSE /\ tables' = DropTable(CreateTable(tables, upload_id, tables[rel]),
                                   relation_name)
            /\ result' = [status |-> "ok", upload_id |-> upload_id,
                          sample |-> SampleOf(tables[rel])]
            /\ pc' = "done"
            /\ UNCHANGED raisedAt
    /\ UNCHANGED <<csv, rel, todo, log, callVars>>

Next ==
    \/ ParseCsv
    \/ LoadCsv
    \/ Sanitize
    \/ HandleMissingData
    \/ HandleOutliers
    \/ InferBegin
    \/ InferColumn
    \/ StoreFinal

Spec == Init /\ [][Next]_vars

----------------------------------------------------------------------------
(* Properties of clean_and_store_data, checked under Spec.                 *)

Returned == pc = "done" /\ result.status \in {"ok", "none_none"}
Completed == pc = "done" /\ result.status = "ok"
Final == tables[upload_id]

\* C1: whenever clean_and_store_data finishes, by returning an upload id or by
\* a failure propagating out of any stage after the load, the working relation
\* tmp_<uploadId> no longer exists in the engine.
C1_WorkingRelationNeverSurvives ==
    (pc = "done" /\ raisedAt \notin {"parse", "load"})
        => ~TableExists(tables, relation_name)

\* What the code does keep: when clean_and_store_data returns, the working
\* relation is gone, also when per-column statements failed on the way.
WorkingRelationDroppedOnReturn ==
    Returned => ~TableExists(tables, relation_name)

\* C2: when the CSV cannot be parsed or loaded, in every way the parse or the
\* load can fail, clean_and_store_data returns (None, None) and the engine
\* holds exactly the relations it held before the call.
C2_ParseFailureReturnsNone ==
    (pc = "done" /\ csv.kind \in {"malformed", "empty", "unloadable"})
        => /\ result.status = "none_none"
           /\ tables = ("prev" :> PrevRelation)

AllCellsNull(t) ==
    /\ t.rows # <<>>
    /\ \A r \in 1..Len(t.rows) : \A i \in 1..Len(t.cols) : IsNull(t.rows[r][i])

\* C3: for a CSV whose every cell is null the pipeline finishes without
\* raising, returns an upload id and leaves an empty final relation.
C3_EmptyDatasetCompletes ==
    (pc = "done" /\ csv.kind = "table" /\ AllCellsNull(csv.relation)
        /\ raisedAt # "sanitize")
        => /\ result.status = "ok"
           /\ TableExists(tables, upload_id)
           /\ Final.rows = <<>>

\* C4: when an add, populate, drop or rename statement of a column fails, the
\* pipeline is not aborted: every remaining column is processed and the upload
\* reaches its final relation.
C4_StagedFailureDoesNotAbort ==
    (pc = "done" /\ log # {})
        => /\ result.status = "ok"
           /\ todo = <<>>
           /\ TableExists(tables, upload_id)

\* C5: on every completed upload the final relation has no more rows and no
\* more columns than the raw CSV, also when per-column statements failed.
C5_Monotone ==
    Completed
        => /\ Len(Final.rows) <= Len(csv.relation.rows)
           /\ Len(Final.cols) <= Len(csv.relation.cols)

\* C6: a final relation that is not empty has no column whose every value is
\* null, also when per-column statements failed.
C6_NoAllNullColumn ==
    (Completed /\ Final.rows # <<>>)
        => \A i \in 1..Len(Final.cols) :
              \E r \in 1..Len(Final.rows) : ~IsNull(Final.rows[r][i])

WellFormedName(n) ==
    /\ n # <<>>
    /\ \A k \in 1..Len(n) : n[k] \in LowerLetters \cup {"_"}

\* C8: the sanitization step completes for every header: it never raises, and
\* the names after it are non-empty, well-formed and pairwise distinct, also
\* when a name sanitizes to the empty string or two names sanitize alike.
C8_SanitizationCompletes ==
    /\ pc = "done" => raisedAt # "sanitize"
    /\ pc = "sanitized"
         => LET names == ColNames(tables[rel])
            IN  /\ \A i \in 1..Len(names) : WellFormedName(names[i])
                /\ \A i, j \in 1..Len(names) : i # j => names[i] # names[j]

\* one pass of the loop of infer_and_set_datatypes, over the column Head(todo)
Processed == pc = "infer" /\ todo # <<>> /\ todo' = Tail(todo)

\* the values the transformation of the column's inferred type makes of cells
Coerced(cells) ==
    {[r \in 1..Len(cells) |->
         Transform(infer_column_type(smp), cells[r],
                   IF infer_column_type(smp) \in {"INTEGER", "FLOAT"}
                   THEN compute_mean_or_median(cells, infer_column_type(smp))
                   ELSE NullCell)] : smp \in Samples(cells)}

\* C17: after infer_and_set_datatypes has processed a column c, also when
\* some of its add, populate, drop and rename statements failed, the relation
\* has a column named c that holds the original or the coerced values, and
\* has no column named c_new.
C17_ColumnKeptNoLeftover ==
    [][Processed =>
          LET col == Head(todo)
          IN  /\ HasColumn(tables'[rel], col)
              /\ ~HasColumn(tables'[rel], New(col))
              /\ \/ ColCells(tables'[rel], col) = ColCells(tables[rel], col)
                 \/ ColCells(tables'[rel], col) \in Coerced(ColCells(tables[rel], col))]_vars

\* what does hold: a pass none of whose statements failed leaves the
\* column c with the coerced values and no column c_new
CleanPassCoerces ==
    [][(Processed /\ log' = log) =>
          LET col == Head(todo)
          IN  /\ HasColumn(tables'[rel], col)
              /\ ~HasColumn(tables'[rel], New(col))
              /\ ColCells(tables'[rel], col) \in Coerced(ColCells(tables[rel], col))]_vars

----------------------------------------------------------------------------
(* sanitize_column_name called alone, on every name of up to MaxLen        *)
(* characters, and again on its own result.                                *)

Alphabet == {"a", "A", "_", " ", "!", "TAB", "U+0130"}

RawStrings == UNION {[1..n -> Alphabet] : n \in 0..MaxLen}

PipelineIdle ==
    /\ pc = "idle" /\ tables = <<>> /\ csv = <<>> /\ rel = "" /\ todo = <<>>
    /\ result = NoResult /\ raisedAt = "" /\ log = {}

SanitizeInit ==
    /\ sName \in RawStrings
    /\ sOnce = <<>> /\ sTwice = <<>> /\ sPc = "start"
    /\ PipelineIdle /\ UploadsIdle /\ InferIdle /\ OutliersIdle

SanitizeOnce ==
    /\ sPc = "start"
    /\ sOnce' = sanitize_column_name(sName)
    /\ sPc' = "once"
    /\ UNCHANGED <<sName, sTwice, pipelineVars, uploadVars, inferVars, outlierVars>>

SanitizeTwice ==
    /\ sPc = "once"
    /\ sTwice' = sanitize_column_name(sOnce)
    /\ sPc' = "twice"
    /\ UNCHANGED <<sName, sOnce, pipelineVars, uploadVars, inferVars, outlierVars>>

SanitizeNext == SanitizeOnce \/ SanitizeTwice

SpecSanitize == SanitizeInit /\ [][SanitizeNext]_vars

\* C7: sanitizing an already-sanitized name returns it unchanged, for every
\* input string.
C7_Idempotent == sPc = "twice" => sTwice = sOnce

\* The same on names of ASCII letters, underscores, spaces and punctuation.
C7_IdempotentAscii ==
    (sPc = "twice" /\ \A i \in 1..Len(sName) : sName[i] # "U+0130")
        => sTwice = sOnce

----------------------------------------------------------------------------
(* infer_column_type called alone, on every sample of up to MaxSample      *)
(* distinct non-null values.                                               *)

SampleValues == {StrCell(v) : v \in StrVals}

InferInit ==
    /\ iSample \in {smp \in SUBSET SampleValues : Cardinality(smp) <= MaxSample}
    /\ iType = "" /\ iPc = "start"
    /\ PipelineIdle /\ UploadsIdle /\ SanitizeIdle /\ OutliersIdle

InferType ==
    /\ iPc = "start"
    /\ iType' = infer_column_type(iSample)
    /\ iPc' = "done"
    /\ UNCHANGED <<iSample, pipelineVars, uploadVars, sanitizeVars, outlierVars>>

InferNext == InferType

SpecInfer == InferInit /\ [][InferNext]_vars

\* the number of values of the sample each candidate type matches
Matches(key) ==
    CASE key = "INTEGER" -> Cardinality({v \in iSample : is_integer(v)})
      [] key = "FLOAT"   -> Cardinality({v \in iSample : is_float(v)})
      [] key = "DATE"    -> Cardinality({v \in iSample : is_date(v)})
      [] key = "BOOLEAN" -> Cardinality({v \in iSample : is_boolean(v)})
      [] OTHER           -> 0

BestMatches ==
    CHOOSE m \in {Matches(key) : key \in TypeKeys} :
        \A key \in TypeKeys : Matches(key) <= m

\* C9: for every non-empty sample infer_column_type returns a type whose
\* success rate (matches / sample size) is the maximum over the candidate
\* types, so never one with a lower rate than another candidate's, except
\* that it returns VARCHAR whenever that maximum is below 0.5.
C9_MaxRateOrVarchar ==
    (iPc = "done" /\ iSample # {})
        => IF 2 * BestMatches < Cardinality(iSample)
           THEN iType = "VARCHAR"
           ELSE iType \in TypeKeys /\ Matches(iType) = BestMatches

\* a sample whose best rate is positive and below 0.5, typed VARCHAR
C9_Witness ==
    /\ iPc = "done"
    /\ BestMatches > 0
    /\ 2 * BestMatches < Cardinality(iSample)
    /\ iType = "VARCHAR"

\* a sample whose best rate reaches 0.5 with two types sharing it
C9_WitnessMax ==
    /\ iPc = "done"
    /\ iSample # {}
    /\ 2 * BestMatches >= Cardinality(iSample)
    /\ Cardinality({key \in TypeKeys : Matches(key) = BestMatches}) > 1
    /\ Matches(iType) = BestMatches

\* the priority the claim states among the four candidate types
Priority == <<"INTEGER", "FLOAT", "DATE", "BOOLEAN">>

\* C16: when the maximum success rate is at least 0.5, infer_column_type
\* returns, among the candidate types that share it, the first in the order
\* INTEGER, FLOAT, DATE, BOOLEAN (so the sample of "1" and "0" is typed
\* INTEGER), and never VARCHAR.
C16_TiePriority ==
    (iPc = "done" /\ iSample # {} /\ 2 * BestMatches >= Cardinality(iSample))
        => /\ iType # "VARCHAR"
           /\ \E i \in 1..Len(Priority) :
                 /\ iType = Priority[i]
                 /\ Matches(Priority[i]) = BestMatches
                 /\ \A j \in 1..(i - 1) : Matches(Priority[j]) < BestMatches

\* the sample of "1" and "0": INTEGER and BOOLEAN both match every value
C16_Witness ==
    /\ iPc = "done"
    /\ iSample = {StrCell("0"), StrCell("1")}
    /\ Matches("INTEGER") = 2 /\ Matches("BOOLEAN") = 2
    /\ iType = "INTEGER"

\* a tie below INTEGER: FLOAT and DATE, and DATE and BOOLEAN
C16_WitnessLower ==
    /\ iPc = "done"
    /\ iSample = {StrCell("2020-01-01"), StrCell("true")}
    /\ Matches("DATE") = 1 /\ Matches("BOOLEAN") = 1
    /\ iType = "DATE"

----------------------------------------------------------------------------
(* handle_outliers called alone, on every relation of one or two columns   *)
(* and up to MaxOutlierRows rows, with a threshold of 1 or of 3.           *)

OutlierCells == {NullCell, NumCell(0, 1), NumCell(3, 1)}

\* the columns of n rows: numbers under a storage type handle_outliers
\* lists, the same numbers under one it does not list, and text
OutlierColumns(n) ==
    {[type |-> ty, cells |-> c] :
        ty \in {"BIGINT", "DECIMAL"}, c \in [1..n -> OutlierCells]}
        \cup {[type |-> "VARCHAR", cells |-> [r \in 1..n |-> StrCell("forty")]]}

\* the relation of k columns and n rows with the columns c
OutlierRelation(c, k, n) ==
    [cols |-> [i \in 1..k |-> [name |-> <<<<"a">>, <<"b">>>>[i], type |-> c[i].type]],
     rows |-> [r \in 1..n |-> [i \in 1..k |-> c[i].cells[r]]]]

Thresholds == {1, 3}

OutliersInit ==
    /\ \E n \in 1..MaxOutlierRows, k \in 1..2 :
          \E c \in [1..k -> OutlierColumns(n)] :
              oBefore = OutlierRelation(c, k, n)
    /\ oThreshold \in Thresholds
    /\ oAfter = EmptyRelation /\ oPc = "start"
    /\ PipelineIdle /\ UploadsIdle /\ SanitizeIdle /\ InferIdle

FilterOutliers ==
    /\ oPc = "start"
    /\ oAfter' = handle_outliers(oBefore, oThreshold)
    /\ oPc' = "done"
    /\ UNCHANGED <<oBefore, oThreshold, pipelineVars, uploadVars, sanitizeVars, inferVars>>

OutliersNext == FilterOutliers

SpecOutliers == OutliersInit /\ [][OutliersNext]_vars

\* the non-null values of column i of the relation given, as whole numbers
ValuesOf(i) ==
    LET rows == SelectSeq(oBefore.rows, LAMBDA row : ~IsNull(row[i]))
    IN  [r \in 1..Len(rows) |-> rows[r][i].n]

\* N^2 (N - 1) times the sample variance of column i
ScaledVariance(i) ==
    LET v == ValuesOf(i)
        N == Len(v)
    IN  N * (N * SumInts([r \in 1..N |-> v[r] * v[r]]) - SumInts(v) * SumInts(v))

\* column i is numeric for handle_outliers and its sample standard deviation
\* is neither null nor zero
QualifyingColumn(i) ==
    /\ oBefore.cols[i].type \in {"INTEGER", "BIGINT", "FLOAT", "DOUBLE"}
    /\ Len(ValuesOf(i)) >= 2
    /\ ScaledVariance(i) # 0

\* |value - mean| / stddev of the value of row in column i is not below the
\* threshold (a null has no such quotient).  With dev = N (value - mean) the
\* quotient squared is dev^2 (N - 1) / ScaledVariance.
IsOutlier(row, i) ==
    LET v == ValuesOf(i)
        N == Len(v)
        dev == N * row[i].n - SumInts(v)
    IN  /\ ~IsNull(row[i])
        /\ dev * dev * (N - 1) >= oThreshold * oThreshold * ScaledVariance(i)

----------------------------------------------------------------------------
(* handle_outliers called alone on one numeric column holding 9, 10, 11,   *)
(* 10 and one extreme value, the extreme in each position.                 *)

Extremes == {12, 1000, 100000, 1000000}

\* 9, 10, 11, 10 with x put in as row p
WithExtreme(x, p) ==
    LET usual == <<9, 10, 11, 10>>
    IN  [r \in 1..5 |-> IF r < p THEN usual[r] ELSE IF r = p THEN x ELSE usual[r - 1]]

ScenarioRelation(values, type) ==
    [cols |-> <<[name |-> <<"a">>, type |-> type]>>,
     rows |-> [r \in 1..Len(values) |->
                <<IF type = "DOUBLE" THEN FloatCell(NumCell(values[r], 1))
                  ELSE NumCell(values[r], 1)>>]]

ScenarioInit ==
    /\ \E x \in Extremes, p \in 1..5, type \in {"BIGINT", "DOUBLE"} :
          oBefore = ScenarioRelation(WithExtreme(x, p), type)
    /\ oThreshold \in {1, 2, 3}
    /\ oAfter = EmptyRelation /\ oPc = "start"
    /\ PipelineIdle /\ UploadsIdle /\ SanitizeIdle /\ InferIdle

SpecScenario == ScenarioInit /\ [][OutliersNext]_vars

Scenario3 == ScenarioRelation(<<9, 10, 11, 10, 100000>>, "BIGINT")

\* C11: the outlier filter with threshold 3 on the single numeric column
\* 9, 10, 11, 10, 100000 removes exactly the row of 100000 and keeps the
\* other four rows.
C11_ExtremeRemoved ==
    (oPc = "done" /\ oBefore = Scenario3 /\ oThreshold = 3)
        => oAfter.rows = SubSeq(Scenario3.rows, 1, 4)

\* C11 as the code has it: the filter removes no row.  Among five values the
\* quotient |value - mean| / stddev is at most 4 / sqrt(5), below 3.
C11_NothingRemoved ==
    (oPc = "done" /\ oBefore = Scenario3 /\ oThreshold = 3)
        => oAfter = Scenario3

C11_Witness ==
    /\ oPc = "done" /\ oBefore = Scenario3 /\ oThreshold = 3
    /\ Len(oAfter.rows) = 5
    /\ oAfter.rows[5][1].n = 100000

----------------------------------------------------------------------------
(* Two executions of clean_and_store_data, as the upload handler of        *)
(* src/app.py starts them: each on a connection of its own (get_db), all   *)
(* connections on one database.  A temporary relation belongs to the       *)
(* connection that made it; a final relation to the database.  Only the    *)
(* names of the relations are followed here.                               *)

Executions == {1, 2}

\* the file names uploaded, and the seconds time.time() may read
UploadedNames == {"data.csv", "Data.csv", "other.csv"}
Seconds == {1700000000, 1700000001}

\* two of the 36^8 values random.choices may give at line 160
Suffixes == {"k3x9q0ab", "zz81mmc4"}

\* line 170: the file name without its extension, spaces as underscores,
\* non-word characters removed, lower case
IdFileName(name) ==
    CASE name = "data.csv"  -> "data"
      [] name = "Data.csv"  -> "data"
      [] name = "other.csv" -> "other"

\* line 172: f"{filename}_{timestamp}_{temp_suffix}", kept as its three parts
UploadId(name, timestamp, temp_suffix) ==
    [filename |-> IdFileName(name), timestamp |-> timestamp, suffix |-> temp_suffix]

UploadsInit ==
    /\ \E names \in [Executions -> UploadedNames] :
          uploads = [e \in Executions |->
                        [pc |-> "start", name |-> names[e], id |-> [filename |-> "", timestamp |-> 0,
                                suffix |-> ""]]]
    /\ uTemp = [e \in Executions |-> {}]
    /\ uCatalog = {}
    /\ PipelineIdle /\ SanitizeIdle /\ InferIdle /\ OutliersIdle

\* lines 160-173
NameUpload(e) ==
    /\ uploads[e].pc = "start"
    /\ \E timestamp \in Seconds, temp_suffix \in Suffixes :
          uploads' = [uploads EXCEPT
                         ![e].id = UploadId(uploads[e].name, timestamp, temp_suffix),
                         ![e].pc = "named"]
    /\ UNCHANGED <<uTemp, uCatalog, pipelineVars, sanitizeVars, inferVars, outlierVars>>

\* line 176: CREATE TEMPORARY TABLE tmp_<upload_id>
LoadUpload(e) ==
    /\ uploads[e].pc = "named"
    /\ uTemp' = [uTemp EXCEPT ![e] = @ \cup {uploads[e].id}]
    /\ uploads' = [uploads EXCEPT ![e].pc = "loaded"]
    /\ UNCHANGED <<uCatalog, pipelineVars, sanitizeVars, inferVars, outlierVars>>

\* line 193: CREATE TABLE <upload_id>; the engine rejects it when the
\* database has a relation of that name
StoreUpload(e) ==
    /\ uploads[e].pc = "loaded"
    /\ IF uploads[e].id \in uCatalog
       THEN uploads' = [uploads EXCEPT ![e].pc = "raised"] /\ UNCHANGED uCatalog
       ELSE /\ uCatalog' = uCatalog \cup {uploads[e].id}
            /\ uploads' = [uploads EXCEPT ![e].pc = "stored"]
    /\ UNCHANGED <<uTemp, pipelineVars, sanitizeVars, inferVars, outlierVars>>

\* line 202: DROP TABLE tmp_<upload_id>
DropWorking(e) ==
    /\ uploads[e].pc = "stored"
    /\ uTemp' = [uTemp EXCEPT ![e] = @ \ {uploads[e].id}]
    /\ uploads' = [uploads EXCEPT ![e].pc = "returned"]
    /\ UNCHANGED <<uCatalog, pipelineVars, sanitizeVars, inferVars, outlierVars>>

UploadsNext ==
    \E e \in Executions :
        \/ NameUpload(e)
        \/ LoadUpload(e)
        \/ StoreUpload(e)
        \/ DropWorking(e)

SpecUploads == UploadsInit /\ [][UploadsNext]_vars

\* C12: any two executions of clean_and_store_data, also two concurrent
\* uploads of a file of the same name within the same second, obtain distinct
\* upload identifiers, so that no execution finds the name of its final
\* relation taken by another.
C12_DistinctUploadIds ==
    /\ \A e1, e2 \in Executions :
          (e1 # e2 /\ uploads[e1].pc # "start" /\ uploads[e2].pc # "start")
              => uploads[e1].id # uploads[e2].id
    /\ \A e \in Executions : uploads[e].pc # "raised"

\* What the code does keep: executions of files whose names differ after
\* line 170, or that read different seconds, have distinct identifiers.
DistinctUnlessSameSuffix ==
    \A e1, e2 \in Executions :
        (e1 # e2 /\ uploads[e1].pc # "start" /\ uploads[e2].pc # "start"
            /\ uploads[e1].id = uploads[e2].id)
            => /\ IdFileName(uploads[e1].name) = IdFileName(uploads[e2].name)
               /\ uploads[e1].id.suffix = uploads[e2].id.suffix

----------------------------------------------------------------------------
(* handle_missing_data on relations of three columns: line 186 reached     *)
(* with a sanitized relation whose columns are named a, b and c, a of text *)
(* and c of whole numbers.                                                 *)

MissingRelation(c, n) ==
    [cols |-> [i \in 1..3 |-> [name |-> <<<<"a">>, <<"b">>, <<"c">>>>[i],
                               type |-> c[i].type]],
     rows |-> [r \in 1..n |-> [i \in 1..3 |-> c[i].cells[r]]]]

MissingInit ==
    /\ pc = "sanitized"
    /\ \E c \in [1..3 -> LoadedColumns(MaxRows + 1, 2)] :
          /\ c[1].type = "VARCHAR" /\ c[3].type = "BIGINT"
          /\ csv = [kind |-> "table", relation |-> MissingRelation(c, MaxRows + 1)]
          /\ tables = CreateTable("prev" :> PrevRelation, relation_name,
                                  MissingRelation(c, MaxRows + 1))
    /\ rel = relation_name
    /\ todo = <<>>
    /\ result = NoResult
    /\ raisedAt = ""
    /\ log = {}
    /\ SanitizeIdle /\ InferIdle /\ OutliersIdle /\ UploadsIdle

SpecMissing == MissingInit /\ [][HandleMissingData]_vars

\* the call created relation_name_cleaned: tables[relation_name] is then the
\* input after its empty columns and rows were removed, nulls still in it
Filled == pc = "cleaned" /\ rel = new_relation_name

\* the most frequent of the non-null values of a column
MostFrequentNonNull(cells) == ModeCandidates(NonNull(cells))

SameNumber(v, m) == v.k = "num" /\ m.k = "num" /\ v.n * m.d = m.n * v.d

\* C13: in handle_missing_data every null of a surviving column is replaced
\* by the column's median when the column's own storage type is numeric,
\* and otherwise by a most frequent non-null value of the column, also when
\* earlier columns were dropped as all-null; a null is never the mode.
C13_FilledByOwnType ==
    Filled =>
        LET t   == tables[relation_name]
            out == tables[new_relation_name]
        IN  \A j \in 1..Len(t.cols) : \A r \in 1..Len(t.rows) :
                IsNull(t.rows[r][j]) =>
                    LET cells == ColCells(t, t.cols[j].name)
                    IN  IF t.cols[j].type \in MissingNumericTypes
                        THEN SameNumber(out.rows[r][j], Median(NonNull(cells)))
                        ELSE out.rows[r][j] \in MostFrequentNonNull(cells)

\* what does hold: a column's nulls are all replaced by one value, and
\* no null is left
FilledUniformly ==
    Filled =>
        LET t   == tables[relation_name]
            out == tables[new_relation_name]
        IN  /\ \A j \in 1..Len(t.cols) : \A r1, r2 \in 1..Len(t.rows) :
                   (IsNull(t.rows[r1][j]) /\ IsNull(t.rows[r2][j]))
                       => out.rows[r1][j] = out.rows[r2][j]
            /\ \A j \in 1..Len(t.cols) : \A r \in 1..Len(t.rows) :
                   ~IsNull(out.rows[r][j])

\* C14: handle_missing_data does not change its input relation: when
\* it has returned, the input relation holds the columns and rows it
\* had before the call (csv.relation under SpecMissing), and the relation
\* returned is another relation than the input.
C14_InputNotMutated ==
    pc = "cleaned" =>
        /\ tables[relation_name] = csv.relation
        /\ rel # relation_name

\* what does hold: the input relation loses columns and rows but no value
\* it keeps is changed, so its nulls are still in it
InputOnlyShrinks ==
    pc = "cleaned" =>
        LET t == tables[relation_name]
        IN  \A j \in 1..Len(t.cols) :
                \E keep \in SUBSET (1..Len(csv.relation.rows)) :
                    ColCells(t, t.cols[j].name)
                        = ColCells([csv.relation EXCEPT
                                       !.rows = PickRows(csv.relation.rows, keep, 1)],
                                   t.cols[j].name)

----------------------------------------------------------------------------
(* The pipeline on a file with the column "Age " of the values 25, 30,     *)
(* forty and a blank, in any order of the rows.  The blank is loaded as    *)
(* the empty text when the column is alone in the file and quoted, and as  *)
(* a null when the file has a second column, b, which holds 1 in each row. *)

AgeRelation(order, blank, columns) ==
    LET raw == <<StrCell("25"), StrCell("30"), StrCell("forty"), blank>>
    IN  [cols |-> [i \in 1..columns |->
                      IF i = 1 THEN [name |-> <<"A", "g", "e", " ">>, type |-> "VARCHAR"]
                      ELSE [name |-> <<"b">>, type |-> "BIGINT"]],
         rows |-> [r \in 1..4 |-> [i \in 1..columns |->
                      IF i = 1 THEN raw[order[r]] ELSE NumCell(1, 1)]]]

AgeInit ==
    /\ pc = "start"
    /\ tables = ("prev" :> PrevRelation)
    /\ \E order \in {f \in [1..4 -> 1..4] : \A i, j \in 1..4 : f[i] = f[j] => i = j} :
          \/ csv = [kind |-> "table", relation |-> AgeRelation(order, StrCell(""), 1)]
          \/ csv = [kind |-> "table", relation |-> AgeRelation(order, NullCell, 2)]
    /\ rel = ""
    /\ todo = <<>>
    /\ result = NoResult
    /\ raisedAt = ""
    /\ log = {}
    /\ SanitizeIdle /\ InferIdle /\ OutliersIdle /\ UploadsIdle

SpecAge == AgeInit /\ [][Next]_vars

\* the upload completed and none of its staged statements failed
AgeCompleted == Completed /\ log = {}

\* the value the claim gives the row whose raw value is raw: 27.5 rounded
\* to an integer is 27 or 28
AgeExpected(raw) ==
    CASE raw = StrCell("25") -> {NumCell(25, 1)}
      [] raw = StrCell("30") -> {NumCell(30, 1)}
      [] OTHER               -> {NumCell(27, 1), NumCell(28, 1)}

\* C15: through the whole pipeline the column "Age " of the raw values 25,
\* 30, forty and blank ends as the column age of type INTEGER with four
\* rows: the rows of forty and of the blank hold the median of 25 and 30
\* rounded to an integer, the other two rows hold 25 and 30.
C15_AgeScenario ==
    AgeCompleted =>
        /\ HasColumn(Final, <<"a", "g", "e">>)
        /\ Final.cols[ColIndex(Final, <<"a", "g", "e">>)].type = "INTEGER"
        /\ Len(Final.rows) = 4
        /\ \A r \in 1..4 :
              Final.rows[r][ColIndex(Final, <<"a", "g", "e">>)]
                  \in AgeExpected(csv.relation.rows[r][1])

\* what does hold: the column ends as age of type INTEGER with four rows,
\* 25 and 30 are kept, and the other two rows hold whole numbers from 25 to
\* 30; when the blank was loaded as the empty text they hold 28
AgeTypedInteger ==
    AgeCompleted =>
        /\ HasColumn(Final, <<"a", "g", "e">>)
        /\ Final.cols[ColIndex(Final, <<"a", "g", "e">>)].type = "INTEGER"
        /\ Len(Final.rows) = 4
        /\ \A r \in 1..4 :
              LET v   == Final.rows[r][ColIndex(Final, <<"a", "g", "e">>)]
                  raw == csv.relation.rows[r][1]
              IN  /\ v.k = "num" /\ v.d = 1 /\ v.n >= 25 /\ v.n <= 30
                  /\ raw \in {StrCell("25"), StrCell("30")} => v \in AgeExpected(raw)
                  /\ Len(csv.relation.cols) = 1 => v \in AgeExpected(raw)

============================================================================
